---- MODULE Spec2Model ----
(***************************************************************************)
(* Model of the account state store (account/badger.go) and of the        *)
(* transfer engine (api/wrappers.go) of iota.go.                           *)
(*                                                                         *)
(*   Spec      one caller: every store operation runs to completion        *)
(*   SpecConc  three callers, one call each, interleaved at the            *)
(*             granularity of badger transactions                          *)
(*   SpecPT    PrepareTransfers applied to bounded arguments               *)
(***************************************************************************)
EXTENDS Integers, Sequences, FiniteSets, TLC

\* ------------------------------------------------------------------ bounds
\* usedAddresses holds at most MaxUsed entries; index lists are that long at most
MaxUsed == 2
\* a pending transfer holds at most MaxTails tail hashes
MaxTails == 2

Ids == {"acc"}
Hashes == {"h1", "h2"}
BundleTrytes == {"bundle"}
Callers == {"c1", "c2", "c3"}
\* the key indices callers name: 0 (whose negation is itself) and a positive one
KeyIndices == {0, 1}

RECURSIVE SeqsOfLen(_, _)
SeqsOfLen(S, n) ==
  IF n = 0 THEN {<<>>} ELSE {<<x>> \o r : x \in S, r \in SeqsOfLen(S, n - 1)}
SeqsUpTo(S, n) == UNION {SeqsOfLen(S, k) : k \in 0..n}
IndexLists == SeqsUpTo(KeyIndices, MaxUsed)

\* math.Abs on the int64 entries of UsedAddresses
Abs(x) == IF x < 0 THEN -x ELSE x

EmptyMap == [h \in {} |-> <<>>]
MapPut(m, k, v) == [x \in (DOMAIN m) \cup {k} |-> IF x = k THEN v ELSE m[x]]
MapDel(m, k) == [x \in (DOMAIN m) \ {k} |-> m[x]]

\* ------------------------------------------------------- the stored record
\* a fresh in-memory AccountState
newaccountstate ==
  [UsedAddresses |-> <<>>, PendingTransfers |-> EmptyMap, lastKeyIndex |-> 0]

\* json.Marshal: the exported fields only (lastKeyIndex is unexported)
Marshal(state) ==
  [UsedAddresses |-> state.UsedAddresses, PendingTransfers |-> state.PendingTransfers]

\* json.Unmarshal into newaccountstate(): lastKeyIndex keeps its zero value
Unmarshal(doc) ==
  [UsedAddresses |-> doc.UsedAddresses, PendingTransfers |-> doc.PendingTransfers,
   lastKeyIndex |-> newaccountstate.lastKeyIndex]

\* what txn.Get finds under a key: nothing (ErrKeyNotFound) or the record
NotFound == [found |-> FALSE, doc |-> Marshal(newaccountstate)]
Stored(doc) == [found |-> TRUE, doc |-> doc]

\* the pending transfer derived from the bundle's trytes, before its tail is appended
trytesToPendingTransfer(bundleTrytes) == [Essence |-> bundleTrytes, Tails |-> <<>>]

\* ------------------------------------------------------------------- calls
NoCall ==
  [op |-> "none", id |-> "acc", indices |-> <<>>, tail |-> "h1", newTail |-> "h1",
   trytes |-> "bundle"]
Call(op, id, indices, tail, newTail) ==
  [op |-> op, id |-> id, indices |-> indices, tail |-> tail, newTail |-> newTail,
   trytes |-> "bundle"]

MutatingOps == {"MarkDepositAddresses", "AddPendingTransfer", "RemovePendingTransfer",
                "AddTailHash"}

\* ------------------------------------------------ the mutation functions
RECURSIVE AppendNegated(_, _)
\* MarkDepositAddresses' loop: append -int64(index) for each index
AppendNegated(used, indices) ==
  IF indices = <<>> THEN used
  ELSE AppendNegated(Append(used, 0 - Head(indices)), Tail(indices))

MarkDepositMut(state, indices) ==
  [err |-> "nil",
   state |-> [state EXCEPT !.UsedAddresses = AppendNegated(@, indices)]]

\* the position of the first entry whose absolute value is index, 0 if there is none
FirstMatch(used, index) ==
  IF \E i \in 1..Len(used) : Abs(used[i]) = index
  THEN CHOOSE i \in 1..Len(used) :
         /\ Abs(used[i]) = index
         /\ \A k \in 1..(i - 1) : Abs(used[k]) # index
  ELSE 0

RECURSIVE MarkSpent(_, _)
\* AddPendingTransfer's outer loop over the supplied indices: each one flips the
\* first matching entry in place; a missing index stops the loop with the entries
\* flipped so far still flipped in memory
MarkSpent(used, indices) ==
  IF indices = <<>> THEN [found |-> TRUE, used |-> used]
  ELSE LET p == FirstMatch(used, Head(indices)) IN
       IF p = 0 THEN [found |-> FALSE, used |-> used]
       ELSE MarkSpent([used EXCEPT ![p] = Abs(used[p])], Tail(indices))

\* a variant that records the transfer and leaves the matched entries reserved
AddPendingMut_KeepsReserved(state, tailTx, bundleTrytes, indices) ==
  LET r == MarkSpent(state.UsedAddresses, indices)
      pt == trytesToPendingTransfer(bundleTrytes)
      pendingTransfer == [pt EXCEPT !.Tails = Append(@, tailTx)]
  IN IF ~r.found THEN [err |-> "ErrAddrIndexNotFound", state |-> state]
     ELSE [err |-> "nil",
           state |-> [state EXCEPT !.PendingTransfers = MapPut(@, tailTx, pendingTransfer)]]

AddPendingMut(state, tailTx, bundleTrytes, indices) ==
  LET r == MarkSpent(state.UsedAddresses, indices)
      marked == [state EXCEPT !.UsedAddresses = r.used]
      pt == trytesToPendingTransfer(bundleTrytes)
      pendingTransfer == [pt EXCEPT !.Tails = Append(@, tailTx)]
  IN IF ~r.found THEN [err |-> "ErrAddrIndexNotFound", state |-> marked]
     ELSE [err |-> "nil",
           state |-> [marked EXCEPT !.PendingTransfers = MapPut(@, tailTx, pendingTransfer)]]

\* a variant that clears the whole map instead of deleting one key
RemovePendingMut_DeletesAll(state, tailTx) ==
  IF tailTx \notin DOMAIN state.PendingTransfers
  THEN [err |-> "ErrPendingTransferNotFound", state |-> state]
  ELSE [err |-> "nil", state |-> [state EXCEPT !.PendingTransfers = EmptyMap]]

RemovePendingMut(state, tailTx) ==
  IF tailTx \notin DOMAIN state.PendingTransfers
  THEN [err |-> "ErrPendingTransferNotFound", state |-> state]
  ELSE [err |-> "nil", state |-> [state EXCEPT !.PendingTransfers = MapDel(@, tailTx)]]

\* a variant that puts the new tail hash in front
AddTailHashMut_Prepends(state, tailTx, newTailTxHash) ==
  IF tailTx \notin DOMAIN state.PendingTransfers
  THEN [err |-> "ErrPendingTransferNotFound", state |-> state]
  ELSE [err |-> "nil",
        state |-> [state EXCEPT !.PendingTransfers[tailTx].Tails = <<newTailTxHash>> \o @]]

AddTailHashMut(state, tailTx, newTailTxHash) ==
  IF tailTx \notin DOMAIN state.PendingTransfers
  THEN [err |-> "ErrPendingTransferNotFound", state |-> state]
  ELSE [err |-> "nil",
        state |-> [state EXCEPT !.PendingTransfers[tailTx].Tails = Append(@, newTailTxHash)]]

\* the statemutationfunc each operation hands to mutate
mutFunc(call, state) ==
  CASE call.op = "MarkDepositAddresses" -> MarkDepositMut(state, call.indices)
    [] call.op = "AddPendingTransfer" ->
         AddPendingMut(state, call.tail, call.trytes, call.indices)
    [] call.op = "RemovePendingTransfer" -> RemovePendingMut(state, call.tail)
    [] call.op = "AddTailHash" -> AddTailHashMut(state, call.tail, call.newTail)
    [] OTHER -> [err |-> "nil", state |-> state]

\* the function mutate runs inside db.Update, on the record the transaction reads:
\* the error it returns and whether (and what) it hands to txn.Set
\* a variant that hands the state to txn.Set even when the mutation function failed
mutateBody_SetsOnError(item, call) ==
  IF ~item.found THEN [err |-> "ErrKeyNotFound", set |-> FALSE, doc |-> item.doc]
  ELSE LET r == mutFunc(call, Unmarshal(item.doc)) IN
       [err |-> r.err, set |-> TRUE, doc |-> Marshal(r.state)]

mutateBody(item, call) ==
  IF ~item.found THEN [err |-> "ErrKeyNotFound", set |-> FALSE, doc |-> item.doc]
  ELSE LET r == mutFunc(call, Unmarshal(item.doc)) IN
       IF r.err # "nil" THEN [err |-> r.err, set |-> FALSE, doc |-> item.doc]
       ELSE [err |-> "nil", set |-> TRUE, doc |-> Marshal(r.state)]

\* LoadAccount's use of a record that exists: lastKeyIndex from the last entry
loadExisting(doc) ==
  LET state == Unmarshal(doc) IN
  IF Len(state.UsedAddresses) > 0
  THEN [state EXCEPT !.lastKeyIndex = Abs(state.UsedAddresses[Len(state.UsedAddresses)])]
  ELSE state

\* GetPendingTransfers' reader: the tail hashes of the pending transfers; the
\* reader dereferences the state it is handed, nil when the key is missing
getPendingBody(item) ==
  IF ~item.found THEN [err |-> "panic", tails |-> {}]
  ELSE [err |-> "nil", tails |-> DOMAIN Unmarshal(item.doc).PendingTransfers]

\* ===================================================== PrepareTransfers
\* values and balances are 0..MaxValue
MaxValue == 2
\* a call names at most MaxTransfers transfers and supplies at most MaxInputs inputs
MaxTransfers == 1
MaxInputs == 2
\* GetInputs sees at most MaxNode addresses of the seed on the node
MaxNode == 2
\* GetNewAddress skips at most MaxProbe used addresses before the unused one
MaxProbe == 1

\* the addresses of the seed by key index, and one address foreign to it
AddrNames == <<"A", "B", "C", "D", "E", "F", "G", "H">>
ForeignAddr == "X"

\* an address is its hash with or without the checksum suffix
Addr(hash, cs) == [hash |-> hash, cs |-> cs]
GenerateAddress(index) == Addr(AddrNames[index + 1], FALSE)
RemoveChecksum(a) == [a EXCEPT !.cs = FALSE]

NilRemainder == [kind |-> "nil", addr |-> Addr("A", FALSE)]
InvalidRemainder == [kind |-> "invalid", addr |-> Addr("A", FALSE)]
GivenRemainder(a) == [kind |-> "addr", addr |-> a]

RECURSIVE SumOf(_, _)
\* the sum of f over the elements of a sequence
SumOf(f(_), seq) == IF seq = <<>> THEN 0 ELSE f(Head(seq)) + SumOf(f, Tail(seq))

ValueOf(x) == x.Value
BalanceOf(x) == x.Balance

\* totalTransferValue: the sum of the transfers' values
totalTransferValue(transfers) == SumOf(ValueOf, transfers)

\* bundle.AddEntry: one transaction per entry, carrying its address and value
AddEntry(txs, entry) == Append(txs, [Address |-> entry.Address, Value |-> entry.Value])

RECURSIVE TransfersToBundleEntries(_)
\* bundle.TransfersToBundleEntries: one entry per transfer
TransfersToBundleEntries(transfers) ==
  IF transfers = <<>> THEN <<>>
  ELSE <<[Address |-> Head(transfers).Address, Value |-> Head(transfers).Value]>>
         \o TransfersToBundleEntries(Tail(transfers))

RECURSIVE AddEntries(_, _)
AddEntries(txs, entries) ==
  IF entries = <<>> THEN txs
  ELSE AddEntries(AddEntry(txs, Head(entries)), Tail(entries))

\* a variant that leaves the checksum on the input transaction's address
inputEntry_KeepsChecksum(input) ==
  [Address |-> input.Address, Value |-> 0 - input.Balance]

\* the bundle entry of an input: its address without checksum, minus its balance
inputEntry(input) ==
  [Address |-> RemoveChecksum(input.Address), Value |-> 0 - input.Balance]

RECURSIVE inputEntries(_)
inputEntries(inputs) ==
  IF inputs = <<>> THEN <<>>
  ELSE <<inputEntry(Head(inputs))>> \o inputEntries(Tail(inputs))

\* GetInputObjects: an input for every address with a positive balance, its key
\* index the address's position counted from start
RECURSIVE GetInputObjectsFrom(_, _, _, _)
GetInputObjectsFrom(addresses, balances, start, i) ==
  IF i > Len(addresses) THEN <<>>
  ELSE LET rest == GetInputObjectsFrom(addresses, balances, start, i + 1) IN
       IF balances[i] <= 0 THEN rest
       ELSE <<[Address |-> addresses[i], KeyIndex |-> start + (i - 1),
               Balance |-> balances[i]]>> \o rest

GetInputObjects(addresses, balances, start) ==
  LET addrs == GetInputObjectsFrom(addresses, balances, start, 1) IN
  [Inputs |-> addrs, TotalBalance |-> SumOf(BalanceOf, addrs)]

RECURSIVE thresholdInputs(_, _, _)
\* GetInputs' loop: inputs in order until the running total reaches the threshold
thresholdInputs(inputs, threshold, total) ==
  IF inputs = <<>> \/ total >= threshold THEN <<>>
  ELSE <<Head(inputs)>>
         \o thresholdInputs(Tail(inputs), threshold, total + Head(inputs).Balance)

RECURSIVE GenerateAddresses(_, _)
\* the total addresses of the seed from key index index on
GenerateAddresses(index, total) ==
  IF total = 0 THEN <<>>
  ELSE <<GenerateAddress(index)>> \o GenerateAddresses(index + 1, total - 1)

\* GetInputs with a threshold, on the balances the node gave for the addresses
\* 0 .. Len(balances)-1 of the seed
GetInputs(balances, threshold) ==
  LET inputs == GetInputObjects(GenerateAddresses(0, Len(balances)), balances, 0)
  IN IF threshold > inputs.TotalBalance
     THEN [err |-> "ErrInsufficientBalance", Inputs |-> <<>>]
     ELSE [err |-> "nil", Inputs |-> thresholdInputs(inputs.Inputs, threshold, 0)]

\* the addresses PrepareTransfers asks the node about before it drops spent
\* inputs: a list as long as props.Inputs, filled from the gathered inputs
RECURSIVE spentQueryFrom(_, _, _)
spentQueryFrom(propsInputs, gathered, k) ==
  IF k > Len(propsInputs) THEN <<>>
  ELSE <<gathered[k].Address>> \o spentQueryFrom(propsInputs, gathered, k + 1)
spentQuery(propsInputs, gathered) == spentQueryFrom(propsInputs, gathered, 1)

\* append(inputs[:i], inputs[i+1:]...), positions counted from 1
RemoveAt(seq, i) == SubSeq(seq, 1, i - 1) \o SubSeq(seq, i + 1, Len(seq))

RECURSIVE dropSpent(_, _, _)
\* the loop over the spent states: a true state at position i removes the input
\* that is at position i of the list as it is by then
dropSpent(inputs, states, i) ==
  IF i > Len(states) THEN [panic |-> FALSE, Inputs |-> inputs]
  ELSE IF ~states[i] THEN dropSpent(inputs, states, i + 1)
  ELSE IF i > Len(inputs) THEN [panic |-> TRUE, Inputs |-> inputs]
  ELSE dropSpent(RemoveAt(inputs, i), states, i + 1)

\* the largest key index among the inputs, plus one
RECURSIVE MaxKeyIndex(_, _)
MaxKeyIndex(inputs, sofar) ==
  IF inputs = <<>> THEN sofar
  ELSE MaxKeyIndex(Tail(inputs),
                   IF Head(inputs).KeyIndex > sofar THEN Head(inputs).KeyIndex ELSE sofar)
remainderAddressKeyIndex(inputs) == MaxKeyIndex(inputs, inputs[1].KeyIndex) + 1

\* a variant that adds a remainder transaction whatever the remainder is
needsRemainder_Always(remainder) == TRUE

\* whether the remainder step runs
needsRemainder(remainder) == remainder # 0

\* the check that no output pays an input's address, made on the inputs'
\* addresses as they are in props.Inputs
sendsBackToInputs(txs, inputs) ==
  \E i \in 1..Len(txs), j \in 1..Len(inputs) :
    txs[i].Value > 0 /\ inputs[j].Address = txs[i].Address

\* the arguments of a call
TransferPool == {[Address |-> Addr(h, FALSE), Value |-> v] :
                   h \in {AddrNames[1], ForeignAddr}, v \in 0..MaxValue}
InputPool(cs) == {[Address |-> Addr(AddrNames[k + 1], cs), KeyIndex |-> k, Balance |-> b] :
                    k \in {0, 1}, b \in 0..MaxValue}
RemainderPool(cs) ==
  {NilRemainder, InvalidRemainder}
    \cup {GivenRemainder(Addr(h, cs)) : h \in {AddrNames[1], "R"}}

PTArgs(cs) ==
  [seedOK : {TRUE},
   transfers : SeqsUpTo(TransferPool, MaxTransfers),
   inputs : SeqsUpTo(InputPool(cs), MaxInputs),
   remainder : RemainderPool(cs)]

NoArgs == [seedOK |-> TRUE, transfers |-> <<>>, inputs |-> <<>>, remainder |-> NilRemainder]
NoProps ==
  [Inputs |-> <<>>, Transactions |-> <<>>, RemainderAddress |-> NilRemainder,
   gathered |-> <<>>, nodeUsed |-> <<>>]
NoResult == [err |-> "nil", bundle |-> <<>>]

\* ---------------------------------------------------------------- state
\* db: the badger store, one record per account id
\* last: the most recent completed call of the single caller of Spec, with the
\*       record it found (pre), the error it returned and what it returned
\* pc, call, snap, conflict, res, overlap: the callers of SpecConc
\* ptArgs, ptPc, ptProps, ptRes: one call of PrepareTransfers (SpecPT)
\* gb: one call of GetBundle (SpecGB); pr: one call of PromoteTransaction
\* (SpecPromote); au: one call of IsAddressUsed (SpecUsed); na: one call of
\* GetNewAddress (SpecNewAddress)
VARIABLES db, last, pc, call, snap, conflict, res, overlap, ptArgs, ptPc, ptProps, ptRes,
          gb, pr, au, na

storeVars == <<db, last>>
concVars == <<pc, call, snap, conflict, res, overlap>>
ptVars == <<ptArgs, ptPc, ptProps, ptRes>>
\* what the actions of Spec, and of SpecConc, leave alone
apiVars == <<gb, pr, au, na>>
offStore == <<concVars, ptVars, apiVars>>
offConc == <<last, ptVars, apiVars>>
offApi == <<db, last, concVars, ptVars, na>>
offNewAddress == <<db, last, concVars, ptVars, gb, pr, au>>
vars == <<db, last, pc, call, snap, conflict, res, overlap, ptArgs, ptPc, ptProps, ptRes,
          gb, pr, au, na>>

NoLast ==
  [call |-> NoCall, err |-> "nil", pre |-> NotFound, ret |-> newaccountstate,
   tails |-> {}]

ConcIdle ==
  /\ pc = [c \in Callers |-> "idle"]
  /\ call = [c \in Callers |-> NoCall]
  /\ snap = [c \in Callers |-> NotFound]
  /\ conflict = [c \in Callers |-> FALSE]
  /\ res = [c \in Callers |-> "nil"]
  /\ overlap = [c \in Callers |-> {}]

PTIdle ==
  /\ ptArgs = NoArgs
  /\ ptPc = "idle"
  /\ ptProps = NoProps
  /\ ptRes = NoResult

GBIdle == gb = [pc |-> "idle"]
PromoteIdle == pr = [pc |-> "idle"]
UsedIdle == au = [pc |-> "idle"]
NewAddressIdle == na = [pc |-> "idle"]
ApiIdle == GBIdle /\ PromoteIdle /\ UsedIdle /\ NewAddressIdle

Init ==
  /\ db = [id \in Ids |-> NotFound]
  /\ last = NoLast
  /\ ConcIdle
  /\ PTIdle
  /\ ApiIdle

\* ------------------------------------------------ Spec: one caller at a time
Done(c, err, pre, ret, tails) ==
  last' = [call |-> c, err |-> err, pre |-> pre, ret |-> ret, tails |-> tails]

\* a variant that returns the fresh state without storing it
LoadAccountCreate_NotPersisted(id) == db

\* what LoadAccount stores when the key is missing
LoadAccountCreate(id) == [db EXCEPT ![id] = Stored(Marshal(newaccountstate))]

LoadAccount(id) ==
  /\ IF db[id].found
     THEN /\ db' = db
          /\ Done(Call("LoadAccount", id, <<>>, "h1", "h1"), "nil", db[id],
                  loadExisting(db[id].doc), {})
     ELSE /\ db' = LoadAccountCreate(id)
          /\ Done(Call("LoadAccount", id, <<>>, "h1", "h1"), "nil", db[id],
                  newaccountstate, {})
  /\ UNCHANGED offStore

RemoveAccount(id) ==
  /\ db' = [db EXCEPT ![id] = NotFound]
  /\ Done(Call("RemoveAccount", id, <<>>, "h1", "h1"), "nil", db[id], newaccountstate, {})
  /\ UNCHANGED offStore

\* mutate with no other transaction open: read, transform, write, commit
mutate(c) ==
  LET out == mutateBody(db[c.id], c) IN
  /\ db' = IF out.set THEN [db EXCEPT ![c.id] = Stored(out.doc)] ELSE db
  /\ Done(c, out.err, db[c.id], newaccountstate, {})
  /\ UNCHANGED offStore

\* the caps that keep the record finite
RoomForIndices(item, indices) ==
  item.found => Len(item.doc.UsedAddresses) + Len(indices) <= MaxUsed
RoomForTail(item, tailTx) ==
  (item.found /\ tailTx \in DOMAIN item.doc.PendingTransfers)
    => Len(item.doc.PendingTransfers[tailTx].Tails) < MaxTails

MarkDepositAddresses(id, indices) ==
  /\ RoomForIndices(db[id], indices)
  /\ mutate(Call("MarkDepositAddresses", id, indices, "h1", "h1"))

AddPendingTransfer(id, tailTx, indices) ==
  mutate(Call("AddPendingTransfer", id, indices, tailTx, "h1"))

RemovePendingTransfer(id, tailTx) ==
  mutate(Call("RemovePendingTransfer", id, <<>>, tailTx, "h1"))

AddTailHash(id, tailTx, newTailTxHash) ==
  /\ RoomForTail(db[id], tailTx)
  /\ mutate(Call("AddTailHash", id, <<>>, tailTx, newTailTxHash))

GetPendingTransfers(id) ==
  LET out == getPendingBody(db[id]) IN
  /\ db' = db
  /\ Done(Call("GetPendingTransfers", id, <<>>, "h1", "h1"), out.err, db[id],
          newaccountstate, out.tails)
  /\ UNCHANGED offStore

Next ==
  \/ \E id \in Ids : LoadAccount(id)
  \/ \E id \in Ids : RemoveAccount(id)
  \/ \E id \in Ids, indices \in IndexLists : MarkDepositAddresses(id, indices)
  \/ \E id \in Ids, t \in Hashes, indices \in IndexLists : AddPendingTransfer(id, t, indices)
  \/ \E id \in Ids, t \in Hashes : RemovePendingTransfer(id, t)
  \/ \E id \in Ids, t \in Hashes, n \in Hashes : AddTailHash(id, t, n)
  \/ \E id \in Ids : GetPendingTransfers(id)

Spec == Init /\ [][Next]_vars

\* --------------------------------- SpecConc: callers racing on one account
\* the records the store may hold when the callers arrive, each one reached by
\* LoadAccount, MarkDepositAddresses and AddPendingTransfer calls under Spec
InitStores ==
  {NotFound, Stored(Marshal(newaccountstate))}
    \cup {Stored([UsedAddresses |-> <<0 - j>>, PendingTransfers |-> EmptyMap]) :
            j \in KeyIndices}
    \cup {Stored([UsedAddresses |-> <<j>>,
                  PendingTransfers |->
                    MapPut(EmptyMap, "h1", [Essence |-> "bundle", Tails |-> <<"h1">>])]) :
            j \in KeyIndices}

\* the calls a caller may issue
ConcCalls ==
  {Call("LoadAccount", id, <<>>, "h1", "h1") : id \in Ids}
    \cup {Call("RemoveAccount", id, <<>>, "h1", "h1") : id \in Ids}
    \cup {Call("GetPendingTransfers", id, <<>>, "h1", "h1") : id \in Ids}
    \cup {Call("MarkDepositAddresses", id, <<i>>, "h1", "h1") : id \in Ids, i \in KeyIndices}
    \cup {Call("AddPendingTransfer", id, <<j>>, "h1", "h1") : id \in Ids, j \in KeyIndices}
    \cup {Call("RemovePendingTransfer", id, <<>>, "h1", "h1") : id \in Ids}
    \cup {Call("AddTailHash", id, <<>>, "h1", "h2") : id \in Ids}

InitConc ==
  /\ db \in [Ids -> InitStores]
  /\ last = NoLast
  /\ ConcIdle
  /\ PTIdle
  /\ ApiIdle

InFlight(c) == pc[c] \in {"called", "txn", "creating"}

\* a variant of the commit check that never reports a conflict
hasConflict_Never(c) == FALSE

\* txn.Commit of an update transaction: ErrConflict when a key the transaction
\* read was written by a transaction that committed after this one began
hasConflict(c) == conflict[c]

\* a commit that writes the key of id: every other open update transaction that
\* read the key will meet a conflict at its own commit
CommitWrite(c, id) ==
  conflict' = [d \in Callers |->
                 IF d # c /\ pc[d] = "txn" /\ call[d].id = id THEN TRUE ELSE conflict[d]]

Return(c, err) ==
  /\ pc' = [pc EXCEPT ![c] = "done"]
  /\ res' = [res EXCEPT ![c] = err]

\* a caller issues its call; the calls in flight at that moment overlap with it
Invoke(c, cl) ==
  /\ pc[c] = "idle"
  /\ pc' = [pc EXCEPT ![c] = "called"]
  /\ call' = [call EXCEPT ![c] = cl]
  /\ overlap' = [d \in Callers |->
                   IF d = c THEN {e \in Callers : InFlight(e)}
                   ELSE IF InFlight(d) THEN overlap[d] \cup {c} ELSE overlap[d]]
  /\ UNCHANGED <<db, offConc, snap, conflict, res>>

\* mutate: db.Update opens a read-write transaction and txn.Get reads the key
\* as of the transaction's start
MutateBegin(c) ==
  /\ pc[c] = "called" /\ call[c].op \in MutatingOps
  /\ pc' = [pc EXCEPT ![c] = "txn"]
  /\ snap' = [snap EXCEPT ![c] = db[call[c].id]]
  /\ conflict' = [conflict EXCEPT ![c] = FALSE]
  /\ UNCHANGED <<db, offConc, call, res, overlap>>

\* mutate: the function ran on what was read; an error discards the
\* transaction, otherwise txn.Set and the commit, which may meet a conflict
MutateCommit(c) ==
  LET out == mutateBody(snap[c], call[c]) IN
  /\ pc[c] = "txn"
  /\ IF ~out.set
     THEN /\ Return(c, out.err)
          /\ UNCHANGED <<db, conflict>>
     ELSE IF hasConflict(c)
     THEN /\ Return(c, "ErrConflict")
          /\ UNCHANGED <<db, conflict>>
     ELSE /\ Return(c, "nil")
          /\ db' = [db EXCEPT ![call[c].id] = Stored(out.doc)]
          /\ CommitWrite(c, call[c].id)
  /\ UNCHANGED <<offConc, call, snap, overlap>>

\* LoadAccount: the read-only transaction; an existing record is returned
LoadRead(c) ==
  /\ pc[c] = "called" /\ call[c].op = "LoadAccount"
  /\ IF db[call[c].id].found
     THEN Return(c, "nil")
     ELSE /\ pc' = [pc EXCEPT ![c] = "creating"]
          /\ res' = res
  /\ UNCHANGED <<db, offConc, call, snap, conflict, overlap>>

\* LoadAccount: the second transaction, which only sets the key
LoadWrite(c) ==
  /\ pc[c] = "creating"
  /\ db' = LoadAccountCreate(call[c].id)
  /\ CommitWrite(c, call[c].id)
  /\ Return(c, "nil")
  /\ UNCHANGED <<offConc, call, snap, overlap>>

RemoveAccountTxn(c) ==
  /\ pc[c] = "called" /\ call[c].op = "RemoveAccount"
  /\ db' = [db EXCEPT ![call[c].id] = NotFound]
  /\ CommitWrite(c, call[c].id)
  /\ Return(c, "nil")
  /\ UNCHANGED <<offConc, call, snap, overlap>>

GetPendingRead(c) ==
  /\ pc[c] = "called" /\ call[c].op = "GetPendingTransfers"
  /\ Return(c, getPendingBody(db[call[c].id]).err)
  /\ UNCHANGED <<db, offConc, call, snap, conflict, overlap>>

NextConc ==
  \/ \E c \in Callers, cl \in ConcCalls : Invoke(c, cl)
  \/ \E c \in Callers : MutateBegin(c)
  \/ \E c \in Callers : MutateCommit(c)
  \/ \E c \in Callers : LoadRead(c)
  \/ \E c \in Callers : LoadWrite(c)
  \/ \E c \in Callers : RemoveAccountTxn(c)
  \/ \E c \in Callers : GetPendingRead(c)

SpecConc == InitConc /\ [][NextConc]_vars

\* ------------------------------------------- SpecPT: one PrepareTransfers call
\* the call moves from one node request to the next; every reply the node may
\* give is a step
InitPT ==
  /\ db = [id \in Ids |-> NotFound]
  /\ last = NoLast
  /\ ConcIdle
  /\ \/ \E cs \in BOOLEAN : ptArgs \in PTArgs(cs)
     \/ ptArgs = [NoArgs EXCEPT !.seedOK = FALSE]
  /\ ptPc = "call"
  /\ ptProps = NoProps
  /\ ptRes = NoResult
  /\ ApiIdle

PTGoto(p, props, result) ==
  /\ ptPc' = p
  /\ ptProps' = props
  /\ ptRes' = result
  /\ UNCHANGED <<ptArgs, db, last, concVars, apiVars>>

\* a variant that hands back the transactions built so far along with an error
PTReturn_PartialBundle(props, err) ==
  PTGoto("done", props, [err |-> err, bundle |-> props.Transactions])

\* return nil, err / return trytes, nil
PTReturn(props, err) ==
  PTGoto("done", props,
         [err |-> err, bundle |-> IF err = "nil" THEN props.Transactions ELSE <<>>])

\* the check against sending back to inputs, then finalizing and signing: the
\* bundle hash is read from the first transaction of the finalized bundle
finish(props) ==
  IF sendsBackToInputs(props.Transactions, props.Inputs)
  THEN PTReturn(props, "ErrSendingBackToInputs")
  ELSE IF props.Transactions = <<>> THEN PTReturn(props, "panic")
  ELSE PTReturn(props, "nil")

remainderEntry(address, remainder) == [Address |-> address, Value |-> Abs(remainder)]

\* the remainder step, from the sum of the transactions added so far
remainderStep(props, total) ==
  LET remainder == SumOf(ValueOf, props.Transactions) IN
  IF remainder > 0 THEN PTReturn(props, "ErrInsufficientBalance")
  ELSE IF ~needsRemainder(remainder) THEN finish(props)
  ELSE IF total > 0 /\ props.RemainderAddress.kind = "nil"
  THEN PTGoto("getNewAddress", props, NoResult)
  ELSE IF props.RemainderAddress.kind = "nil" THEN PTReturn(props, "panic")
  ELSE LET cleanedAddr == RemoveChecksum(props.RemainderAddress.addr)
           cleaned == [props EXCEPT !.RemainderAddress = GivenRemainder(cleanedAddr)]
       IN IF total > 0
          THEN finish([cleaned EXCEPT
                         !.Transactions = AddEntry(@, remainderEntry(cleanedAddr, remainder))])
          ELSE finish(cleaned)

\* the input transactions and the check of their total against the transfers'
addInputs(props, total) ==
  LET withInputs ==
        [props EXCEPT !.Transactions = AddEntries(@, inputEntries(props.Inputs))]
  IN IF SumOf(BalanceOf, props.Inputs) < total
     THEN PTReturn(withInputs, "ErrInsufficientBalance")
     ELSE remainderStep(withInputs, total)

\* validation, the output transactions, and the choice to gather inputs
PT_Call ==
  /\ ptPc = "call"
  /\ LET total == totalTransferValue(ptArgs.transfers)
         props == [Inputs |-> ptArgs.inputs,
                   Transactions |->
                     AddEntries(<<>>, TransfersToBundleEntries(ptArgs.transfers)),
                   RemainderAddress |-> ptArgs.remainder,
                   gathered |-> <<>>,
                   nodeUsed |-> <<>>]
     IN IF ~ptArgs.seedOK THEN PTReturn(NoProps, "ErrInvalidSeed")
        ELSE IF ptArgs.remainder.kind = "invalid"
        THEN PTReturn(NoProps, "ErrInvalidRemainderAddress")
        ELSE IF total # 0 /\ Len(props.Inputs) = 0
        THEN PTGoto("getInputs", props, NoResult)
        ELSE addInputs(props, total)

\* GetInputs answers from the balances the node holds for the seed's addresses
PT_GetInputsReply(balances) ==
  /\ ptPc = "getInputs"
  /\ LET r == GetInputs(balances, totalTransferValue(ptArgs.transfers)) IN
     IF r.err # "nil" THEN PTReturn(ptProps, r.err)
     ELSE PTGoto("wereSpent", [ptProps EXCEPT !.gathered = r.Inputs], NoResult)

PT_GetInputsFail ==
  /\ ptPc = "getInputs"
  /\ PTReturn(ptProps, "ErrTransport")

\* WereAddressesSpentFrom answers for the addresses it was asked about; the
\* spent inputs are dropped and the rest become the inputs
PT_WereSpentReply(states) ==
  /\ ptPc = "wereSpent"
  /\ LET r == dropSpent(ptProps.gathered, states, 1) IN
     IF r.panic THEN PTReturn(ptProps, "panic")
     ELSE addInputs([ptProps EXCEPT !.Inputs = r.Inputs],
                    totalTransferValue(ptArgs.transfers))

PT_WereSpentFail ==
  /\ ptPc = "wereSpent"
  /\ PTReturn(ptProps, "ErrTransport")

\* getUntilFirstUnusedAddress: from index upwards, the first address that
\* IsAddressUsed reports unused; used holds the node's answers for the
\* addresses at index, index + 1, ..., and every address after them is unused
\* a variant that returns the address at index without asking the node
getUntilFirstUnusedAddress_NoProbe(used, index) == GenerateAddress(index)

RECURSIVE getUntilFirstUnusedAddress(_, _)
getUntilFirstUnusedAddress(used, index) ==
  IF used # <<>> /\ Head(used)
  THEN getUntilFirstUnusedAddress(Tail(used), index + 1)
  ELSE GenerateAddress(index)

\* GetNewAddress answers with the first unused address from the key index after
\* the inputs' largest; the remainder transaction goes to it
PT_NewAddressReply(used) ==
  /\ ptPc = "getNewAddress"
  /\ LET address ==
           getUntilFirstUnusedAddress(used, remainderAddressKeyIndex(ptProps.Inputs))
         remainder == SumOf(ValueOf, ptProps.Transactions)
     IN finish([ptProps EXCEPT
                  !.RemainderAddress = GivenRemainder(address),
                  !.nodeUsed = used,
                  !.Transactions = AddEntry(@, remainderEntry(address, remainder))])

PT_NewAddressFail ==
  /\ ptPc = "getNewAddress"
  /\ PTReturn(ptProps, "ErrTransport")

\* the node's answers: one state per address it was asked about
spentReplies ==
  IF ptPc = "wereSpent"
  THEN SeqsOfLen(BOOLEAN, Len(spentQuery(ptProps.Inputs, ptProps.gathered)))
  ELSE {}

NextPT ==
  \/ PT_Call
  \/ \E balances \in SeqsUpTo(0..MaxValue, MaxNode) \ {<<>>} : PT_GetInputsReply(balances)
  \/ PT_GetInputsFail
  \/ \E states \in spentReplies : PT_WereSpentReply(states)
  \/ PT_WereSpentFail
  \/ \E used \in SeqsOfLen(BOOLEAN, MaxProbe) : PT_NewAddressReply(used)
  \/ PT_NewAddressFail

SpecPT == InitPT /\ [][NextPT]_vars

\* ------------------------------------- SpecGB: GetBundle and TraverseBundle
\* the largest index a transaction of the ledger carries, and the number of
\* transactions after which the traversal is no longer followed
MaxLastIndex == 2
MaxHops == 4

TxHashes == {"t1", "t2"}
BadHash == "bad"
\* a transaction as the node returns it for a hash; the trunk link of a parsed
\* transaction is a well-formed hash
LedgerTxs ==
  [CurrentIndex : 0..MaxLastIndex, LastIndex : 0..MaxLastIndex,
   TrunkTransaction : TxHashes]

ValidateTransactionHashes(hash) == hash # BadHash
IsTailTransaction(tx) == tx.CurrentIndex = 0

\* bundle.ValidBundle on the index sequence and the transaction count; intact
\* stands for the value sum and the bundle hash being consistent
ValidBundle(bndl, intact) ==
  /\ intact
  /\ \A k \in 1..Len(bndl) :
       bndl[k].CurrentIndex = k - 1 /\ bndl[k].LastIndex = Len(bndl) - 1

\* a variant that also ends the traversal at a transaction whose currentIndex
\* is beyond its lastIndex
traverseStep_StopsPastLast(bndl, tx) ==
  IF Len(bndl) = 0 /\ tx.CurrentIndex # 0
  THEN [err |-> "ErrInvalidTailTransaction", bndl |-> bndl, more |-> FALSE]
  ELSE [err |-> "nil", bndl |-> Append(bndl, tx), more |-> tx.CurrentIndex < tx.LastIndex]

\* a variant that appends the first transaction without the tail check
traverseStep_NoTailCheck(bndl, tx) ==
  IF tx.CurrentIndex = tx.LastIndex
  THEN [err |-> "nil", bndl |-> Append(bndl, tx), more |-> FALSE]
  ELSE [err |-> "nil", bndl |-> Append(bndl, tx), more |-> TRUE]

\* TraverseBundle once the transaction is fetched: the tail check on the first
\* one, the append, and the test that ends the traversal
traverseStep(bndl, tx) ==
  IF Len(bndl) = 0 /\ ~IsTailTransaction(tx)
  THEN [err |-> "ErrInvalidTailTransaction", bndl |-> bndl, more |-> FALSE]
  ELSE IF tx.CurrentIndex = tx.LastIndex
  THEN [err |-> "nil", bndl |-> Append(bndl, tx), more |-> FALSE]
  ELSE [err |-> "nil", bndl |-> Append(bndl, tx), more |-> TRUE]

InitGB ==
  /\ db = [id \in Ids |-> NotFound]
  /\ last = NoLast
  /\ ConcIdle
  /\ PTIdle
  /\ PromoteIdle /\ UsedIdle /\ NewAddressIdle
  /\ \E ledger \in [TxHashes -> LedgerTxs], tail \in TxHashes \cup {BadHash} :
       gb = [pc |-> "call", ledger |-> ledger, tail |-> tail, trunk |-> tail,
             bndl |-> <<>>, fetched |-> <<>>, err |-> "nil", bundle |-> <<>>]

GBReturn(g, err, bundle) ==
  gb' = [g EXCEPT !.pc = "done", !.err = err, !.bundle = bundle]

\* TraverseBundle entered with a trunk hash: the hash is validated, then the
\* transaction is asked for
GBTraverse(g) ==
  IF ~ValidateTransactionHashes(g.trunk)
  THEN GBReturn(g, "ErrInvalidTransactionHash", <<>>)
  ELSE gb' = [g EXCEPT !.pc = "fetch"]

GB_Call ==
  /\ gb.pc = "call"
  /\ IF ~ValidateTransactionHashes(gb.tail)
     THEN GBReturn(gb, "ErrInvalidTransactionHash", <<>>)
     ELSE GBTraverse(gb)
  /\ UNCHANGED <<offApi, pr, au>>

\* GetTrytes answers with the transaction of the hash
GB_FetchReply ==
  /\ gb.pc = "fetch"
  /\ Len(gb.bndl) < MaxHops
  /\ LET r == traverseStep(gb.bndl, gb.ledger[gb.trunk])
         g == [gb EXCEPT !.fetched = Append(@, gb.trunk), !.bndl = r.bndl]
     IN IF r.err # "nil" THEN GBReturn(g, r.err, <<>>)
        ELSE IF r.more
        THEN GBTraverse([g EXCEPT !.trunk = gb.ledger[gb.trunk].TrunkTransaction])
        ELSE gb' = [g EXCEPT !.pc = "validate"]
  /\ UNCHANGED <<offApi, pr, au>>

\* GetTrytes fails, or the trytes it returned do not parse
GB_FetchFail(err) ==
  /\ gb.pc = "fetch"
  /\ Len(gb.bndl) < MaxHops
  /\ GBReturn([gb EXCEPT !.fetched = Append(@, gb.trunk)], err, <<>>)
  /\ UNCHANGED <<offApi, pr, au>>

\* GetBundle validates the traversed bundle before returning it
GB_Validate(intact) ==
  /\ gb.pc = "validate"
  /\ IF ValidBundle(gb.bndl, intact) THEN GBReturn(gb, "nil", gb.bndl)
     ELSE GBReturn(gb, "ErrInvalidBundle", <<>>)
  /\ UNCHANGED <<offApi, pr, au>>

NextGB ==
  \/ GB_Call
  \/ GB_FetchReply
  \/ \E err \in {"ErrTransport", "ErrInvalidTrytes"} : GB_FetchFail(err)
  \/ \E intact \in BOOLEAN : GB_Validate(intact)

SpecGB == InitGB /\ [][NextGB]_vars

\* ------------------------------------------- SpecPromote: PromoteTransaction
\* the number of cycles of the promotion loop that are followed
MaxCycles == 3

\* lines 719-726: what follows the node's answer to the consistency check
\* a variant that goes on to submit whatever the answer is
afterConsistency_Ignored(consistent) == "send"

afterConsistency(consistent) ==
  IF consistent THEN "send" ELSE "ErrInconsistentSubtangle"

\* lines 737-754: what follows a submission when a context was supplied
\* a variant that does not look at the context
ctxSelect_NotLooked(cancelled, hasDelay) == IF hasDelay THEN "delay" ELSE "call"

ctxSelect(cancelled, hasDelay) ==
  IF cancelled THEN "done" ELSE IF hasDelay THEN "delay" ELSE "call"

\* hashOK, transfersOK, hasCtx, hasDelay: the arguments; cancelled: the
\* context is done; cycle: the calls of PromoteTransaction entered so far;
\* submitted: the promotion bundles sent; waited: the delays begun;
\* lateCycle: a cycle was entered with the context already cancelled after a
\* submission; sawInconsistent: the node answered inconsistent, with the
\* number of bundles sent before that cycle
InitPromote ==
  /\ db = [id \in Ids |-> NotFound]
  /\ last = NoLast
  /\ ConcIdle
  /\ PTIdle
  /\ GBIdle /\ UsedIdle /\ NewAddressIdle
  /\ \E hashOK \in BOOLEAN, transfersOK \in BOOLEAN, hasCtx \in BOOLEAN,
        hasDelay \in BOOLEAN, cancelled \in BOOLEAN :
       /\ cancelled => hasCtx
       /\ pr = [pc |-> "call", hashOK |-> hashOK, transfersOK |-> transfersOK,
                hasCtx |-> hasCtx, hasDelay |-> hasDelay,
                cancelled |-> cancelled, cancelledAtCall |-> cancelled,
                cycle |-> 0, submitted |-> 0, waited |-> 0,
                lateCycle |-> FALSE, sawInconsistent |-> FALSE, sentBefore |-> 0,
                err |-> "nil", bundle |-> 0]

PRReturn(p, err, bundle) ==
  pr' = [p EXCEPT !.pc = "done", !.err = err, !.bundle = bundle]

\* entry of PromoteTransaction, first call or recursion: the validations; the
\* recursion passes no spam transfers, so only the first call validates them
PR_Call ==
  /\ pr.pc = "call"
  /\ pr.cycle < MaxCycles
  /\ LET p == [pr EXCEPT !.cycle = @ + 1,
                         !.lateCycle = @ \/ (pr.cycle > 0 /\ pr.cancelled)]
     IN IF ~pr.hashOK THEN PRReturn(p, "ErrInvalidTransactionHash", 0)
        ELSE IF pr.cycle = 0 /\ ~pr.transfersOK THEN PRReturn(p, "ErrInvalidTransfers", 0)
        ELSE pr' = [p EXCEPT !.pc = "check"]
  /\ UNCHANGED <<offApi, gb, au>>

\* CheckConsistency answers
PR_ConsistencyReply(consistent) ==
  /\ pr.pc = "check"
  /\ LET next == afterConsistency(consistent)
         p == [pr EXCEPT !.sawInconsistent = @ \/ ~consistent,
                         !.sentBefore = pr.submitted]
     IN IF next = "send" THEN pr' = [p EXCEPT !.pc = "send"]
        ELSE PRReturn(p, next, 0)
  /\ UNCHANGED <<offApi, gb, au>>

PR_ConsistencyFail ==
  /\ pr.pc = "check"
  /\ PRReturn(pr, "ErrTransport", 0)
  /\ UNCHANGED <<offApi, gb, au>>

\* SendTransfer returns the bundle it sent; without a context that bundle is
\* the result
PR_SendReply ==
  /\ pr.pc = "send"
  /\ LET p == [pr EXCEPT !.submitted = @ + 1] IN
     IF ~pr.hasCtx THEN PRReturn(p, "nil", p.submitted)
     ELSE pr' = [p EXCEPT !.pc = "select", !.bundle = p.submitted]
  /\ UNCHANGED <<offApi, gb, au>>

PR_SendFail ==
  /\ pr.pc = "send"
  /\ PRReturn(pr, "ErrTransport", 0)
  /\ UNCHANGED <<offApi, gb, au>>

\* the select on the context, then the delay or the recursion
PR_Select ==
  /\ pr.pc = "select"
  /\ LET next == ctxSelect(pr.cancelled, pr.hasDelay) IN
     IF next = "done" THEN PRReturn(pr, "nil", pr.bundle)
     ELSE pr' = [pr EXCEPT !.pc = next,
                           !.waited = IF next = "delay" THEN @ + 1 ELSE @]
  /\ UNCHANGED <<offApi, gb, au>>

\* time.After fires: the recursion follows
PR_DelayElapsed ==
  /\ pr.pc = "delay"
  /\ pr' = [pr EXCEPT !.pc = "call"]
  /\ UNCHANGED <<offApi, gb, au>>

\* the caller cancels the context; a cancellation is followed when the cycle
\* after it is still within the cycles that are followed
PR_Cancel ==
  /\ pr.hasCtx /\ ~pr.cancelled
  /\ pr.pc \notin {"idle", "done"}
  /\ pr.cycle < MaxCycles
  /\ pr' = [pr EXCEPT !.cancelled = TRUE]
  /\ UNCHANGED <<offApi, gb, au>>

NextPromote ==
  \/ PR_Call
  \/ \E consistent \in BOOLEAN : PR_ConsistencyReply(consistent)
  \/ PR_ConsistencyFail
  \/ PR_SendReply
  \/ PR_SendFail
  \/ PR_Select
  \/ PR_DelayElapsed
  \/ PR_Cancel

SpecPromote == InitPromote /\ [][NextPromote]_vars

\* the steps of the call itself: every node RPC answers or fails, every delay
\* elapses, and the call goes on whenever it can; the caller is free to
\* cancel or not
PR_Engine ==
  \/ PR_Call
  \/ \E consistent \in BOOLEAN : PR_ConsistencyReply(consistent)
  \/ PR_ConsistencyFail
  \/ PR_SendReply
  \/ PR_SendFail
  \/ PR_Select
  \/ PR_DelayElapsed

SpecPromoteFair == SpecPromote /\ WF_vars(PR_Engine)

\* ------------------------------------------------- SpecUsed: IsAddressUsed
\* the outcomes of the two node queries
SpentOutcomes == {"spent", "unspent", "fail"}
FindOutcomes == {"some", "none", "fail"}

\* a variant that surfaces the last error instead of the first
RECURSIVE firstNonNilErr_Last(_)
firstNonNilErr_Last(errs) ==
  IF errs = <<>> THEN "nil"
  ELSE IF errs[Len(errs)] # "nil" THEN errs[Len(errs)]
  ELSE firstNonNilErr_Last(SubSeq(errs, 1, Len(errs) - 1))

RECURSIVE firstNonNilErr(_)
firstNonNilErr(errs) ==
  IF errs = <<>> THEN "nil"
  ELSE IF Head(errs) # "nil" THEN Head(errs)
  ELSE firstNonNilErr(Tail(errs))

\* spentOutcome, findOutcome: what the node answers; b1, b2: the branches;
\* err1, states, err2, txs: the variables the branches write; order: the
\* branches in the order they finished
InitUsed ==
  /\ db = [id \in Ids |-> NotFound]
  /\ last = NoLast
  /\ ConcIdle
  /\ PTIdle
  /\ GBIdle /\ PromoteIdle /\ NewAddressIdle
  /\ \E so \in SpentOutcomes, fo \in FindOutcomes :
       au = [pc |-> "call", spentOutcome |-> so, findOutcome |-> fo,
             b1 |-> "new", b2 |-> "new",
             err1 |-> "nil", states |-> <<>>, err2 |-> "nil", txs |-> 0,
             order |-> <<>>, used |-> FALSE, err |-> "nil"]

\* wg.Add(2) and the two go statements
AU_Call ==
  /\ au.pc = "call"
  /\ au' = [au EXCEPT !.pc = "wait", !.b1 = "started", !.b2 = "started"]
  /\ UNCHANGED <<offApi, gb, pr>>

\* first branch: WereAddressesSpentFrom answers, states and err1 are assigned
AU_SpentAnswer ==
  /\ au.b1 = "started"
  /\ au' = [au EXCEPT !.b1 = "answered",
                      !.err1 = IF au.spentOutcome = "fail" THEN "ErrSpentFrom" ELSE "nil",
                      !.states = IF au.spentOutcome = "fail" THEN <<>>
                                 ELSE <<au.spentOutcome = "spent">>]
  /\ UNCHANGED <<offApi, gb, pr>>

\* the deferred wg.Done of the first branch
AU_SpentDone ==
  /\ au.b1 = "answered"
  /\ au' = [au EXCEPT !.b1 = "finished", !.order = Append(@, 1)]
  /\ UNCHANGED <<offApi, gb, pr>>

\* second branch: FindTransactions answers, txs and err2 are assigned
AU_FindAnswer ==
  /\ au.b2 = "started"
  /\ au' = [au EXCEPT !.b2 = "answered",
                      !.err2 = IF au.findOutcome = "fail" THEN "ErrFindTransactions" ELSE "nil",
                      !.txs = IF au.findOutcome = "some" THEN 1 ELSE 0]
  /\ UNCHANGED <<offApi, gb, pr>>

AU_FindDone ==
  /\ au.b2 = "answered"
  /\ au' = [au EXCEPT !.b2 = "finished", !.order = Append(@, 2)]
  /\ UNCHANGED <<offApi, gb, pr>>

\* wg.Wait returns once both branches are done; the errors are joined in
\* declaration order and the two signals combined
AU_Join ==
  /\ au.pc = "wait"
  /\ au.b1 = "finished" /\ au.b2 = "finished"
  /\ LET err == firstNonNilErr(<<au.err1, au.err2>>) IN
     au' = [au EXCEPT !.pc = "done", !.err = err,
                      !.used = err = "nil" /\ (au.states[1] \/ au.txs > 0)]
  /\ UNCHANGED <<offApi, gb, pr>>

NextUsed ==
  \/ AU_Call
  \/ AU_SpentAnswer
  \/ AU_SpentDone
  \/ AU_FindAnswer
  \/ AU_FindDone
  \/ AU_Join

SpecUsed == InitUsed /\ [][NextUsed]_vars

\* ------------------------------------------- SpecNewAddress: GetNewAddress
\* the largest options.Total
MaxTotal == 2

\* checksum.AddChecksums: every address gets its checksum, and no error comes
\* back for addresses that were generated
RECURSIVE WithChecksums(_)
WithChecksums(addresses) ==
  IF addresses = <<>> THEN <<>>
  ELSE <<Addr(Head(addresses).hash, TRUE)>> \o WithChecksums(Tail(addresses))
AddChecksums(addresses) == [addresses |-> WithChecksums(addresses), err |-> "nil"]

\* lines 255-259: the checksum step and the return
newAddressReturn(addresses, err, checksum) ==
  IF checksum THEN AddChecksums(addresses)
  ELSE [addresses |-> addresses, err |-> err]

\* lines 303-320 of getUntilFirstUnusedAddress: one turn of the loop with the
\* node's answer for the address at index
\* a variant that appends the address before looking at the answer
probeStep_AppendsUsed(addresses, index, used, returnAll) ==
  [addresses |-> Append(addresses, GenerateAddress(index)), more |-> used]

probeStep(addresses, index, used, returnAll) ==
  LET all == IF returnAll THEN Append(addresses, GenerateAddress(index)) ELSE addresses
  IN IF used THEN [addresses |-> all, more |-> TRUE]
     ELSE [addresses |-> IF returnAll THEN all ELSE Append(all, GenerateAddress(index)),
           more |-> FALSE]

\* seedOK, index, total (-1: none), returnAll, checksum: the arguments;
\* nodeUsed: the node's answers for the addresses at index, index + 1, ...,
\* every later address being unused; cur: the index the loop is at; probes:
\* the indices IsAddressUsed was asked about; failed: a derivation or a probe
\* failed
InitNewAddress ==
  /\ db = [id \in Ids |-> NotFound]
  /\ last = NoLast
  /\ ConcIdle
  /\ PTIdle
  /\ GBIdle /\ PromoteIdle /\ UsedIdle
  /\ \E seedOK \in BOOLEAN, index \in KeyIndices, total \in -1..MaxTotal,
        returnAll \in BOOLEAN, checksum \in BOOLEAN,
        nodeUsed \in SeqsOfLen(BOOLEAN, MaxProbe) :
       na = [pc |-> "call", seedOK |-> seedOK, index |-> index, total |-> total,
             returnAll |-> returnAll, checksum |-> checksum, nodeUsed |-> nodeUsed,
             cur |-> index, addresses |-> <<>>, probes |-> <<>>, failed |-> FALSE,
             err |-> "nil", result |-> <<>>]

NAReturn(n, addresses, err) ==
  LET r == newAddressReturn(addresses, err, n.checksum) IN
  na' = [n EXCEPT !.pc = "done", !.err = r.err, !.result = r.addresses]

\* validation, then the addresses by count or the search for an unused one
NA_Call ==
  /\ na.pc = "call"
  /\ IF ~na.seedOK
     THEN na' = [na EXCEPT !.pc = "done", !.err = "ErrInvalidSeed"]
     ELSE IF na.total = 0
     THEN na' = [na EXCEPT !.pc = "done", !.err = "ErrInvalidTotalOption"]
     ELSE IF na.total > 0
     THEN NAReturn(na, GenerateAddresses(na.index, na.total), "nil")
     ELSE na' = [na EXCEPT !.pc = "probe"]
  /\ UNCHANGED offNewAddress

\* the address at cur is derived and IsAddressUsed answers for it
NA_ProbeReply ==
  /\ na.pc = "probe"
  /\ LET k == na.cur - na.index + 1
         used == k <= Len(na.nodeUsed) /\ na.nodeUsed[k]
         r == probeStep(na.addresses, na.cur, used, na.returnAll)
         n == [na EXCEPT !.probes = Append(@, na.cur), !.addresses = r.addresses]
     IN IF r.more THEN na' = [n EXCEPT !.cur = @ + 1]
        ELSE NAReturn(n, r.addresses, "nil")
  /\ UNCHANGED offNewAddress

\* IsAddressUsed fails for the address at cur
NA_ProbeFail ==
  /\ na.pc = "probe"
  /\ NAReturn([na EXCEPT !.probes = Append(@, na.cur), !.failed = TRUE],
              <<>>, "ErrTransport")
  /\ UNCHANGED offNewAddress

\* address.GenerateAddress fails for the address at cur
NA_DeriveFail ==
  /\ na.pc = "probe"
  /\ NAReturn([na EXCEPT !.failed = TRUE], <<>>, "ErrInvalidAddress")
  /\ UNCHANGED offNewAddress

NextNewAddress ==
  \/ NA_Call
  \/ NA_ProbeReply
  \/ NA_ProbeFail
  \/ NA_DeriveFail

SpecNewAddress == InitNewAddress /\ [][NextNewAddress]_vars

\* ================================================================ claims
\* helpers over the last completed call of Spec
LastIs(op) == last.call.op = op
Pre == last.pre.doc
Post == db[last.call.id].doc
HasIndex(used, index) == \E k \in 1..Len(used) : Abs(used[k]) = index

\* C1: MarkDepositAddresses(id, i) and AddPendingTransfer(id, tail, trytes, j),
\* issued by two callers so that the calls overlap, with no third call issued:
\* in every interleaving, once both have returned without error the stored
\* record holds both effects: one more usedAddresses entry than the record the
\* earlier of the two transactions read, an entry with abs == i, an entry for j
\* in non-negative form, and a pending transfer under tail.
Min2(x, y) == IF x < y THEN x ELSE y
C1_NoLostUpdate ==
  \A a \in Callers, b \in Callers :
    (/\ a # b
     /\ pc[a] = "done" /\ pc[b] = "done"
     /\ \A c \in Callers \ {a, b} : pc[c] = "idle"
     /\ b \in overlap[a] \/ a \in overlap[b]
     /\ call[a].op = "MarkDepositAddresses" /\ res[a] = "nil"
     /\ call[b].op = "AddPendingTransfer" /\ res[b] = "nil"
     /\ call[a].id = call[b].id)
      => LET stored == db[call[a].id]
             used == stored.doc.UsedAddresses
         IN /\ stored.found
            /\ Len(used) = Min2(Len(snap[a].doc.UsedAddresses),
                                Len(snap[b].doc.UsedAddresses)) + Len(call[a].indices)
            /\ \A k \in 1..Len(call[a].indices) : HasIndex(used, call[a].indices[k])
            /\ \A k \in 1..Len(call[b].indices) :
                 \E q \in 1..Len(used) : used[q] = call[b].indices[k]
            /\ call[b].tail \in DOMAIN stored.doc.PendingTransfers

C1_Witness ==
  /\ pc["c1"] = "done" /\ call["c1"].op = "MarkDepositAddresses" /\ res["c1"] = "nil"
  /\ pc["c2"] = "done" /\ call["c2"].op = "AddPendingTransfer" /\ res["c2"] = "nil"
  /\ pc["c3"] = "idle"
  /\ "c1" \in overlap["c2"]
  /\ call["c1"].indices = <<0>> /\ call["c2"].indices = <<1>>
  /\ db["acc"].doc.UsedAddresses = <<1, 0>>
  /\ "h1" \in DOMAIN db["acc"].doc.PendingTransfers

\* C2: LoadAccount's create-if-absent is atomic: when LoadAccount writes the
\* empty state the record is still absent, so it never replaces a stored record
\* that holds another caller's committed mutation.
C2_CreateIfAbsentIsAtomic ==
  [][\A c \in Callers :
       (pc[c] = "creating" /\ pc'[c] = "done" /\ db[call[c].id].found)
         => db'[call[c].id] = db[call[c].id]
    ]_vars

\* C3: LoadAccount of an id with no stored record (never loaded, or removed)
\* returns without error a state with empty usedAddresses and empty
\* pendingTransfers and stores it; a LoadAccount of the same id right after it
\* returns the same empty state and leaves the store unchanged.
C3_IdempotentCreation ==
  [][/\ (last'.call.op = "LoadAccount" /\ ~last'.pre.found)
          => /\ last'.err = "nil"
             /\ last'.ret.UsedAddresses = <<>>
             /\ last'.ret.PendingTransfers = EmptyMap
             /\ db'[last'.call.id].found
             /\ Unmarshal(db'[last'.call.id].doc) = last'.ret
     /\ (/\ LastIs("LoadAccount") /\ ~last.pre.found
         /\ last'.call.op = "LoadAccount" /\ last'.call.id = last.call.id)
          => /\ last'.err = "nil"
             /\ last'.ret = last.ret
             /\ db' = db
    ]_vars

C3_Witness ==
  /\ LastIs("LoadAccount") /\ ~last.pre.found
  /\ db[last.call.id] = Stored(Marshal(newaccountstate))

\* C4: after a successful MarkDepositAddresses(id, ..., i) a following LoadAccount
\* returns a state whose last usedAddresses entry has abs == i; and
\* AddPendingTransfer(id, tail, trytes, i) on a record that holds an entry with
\* abs == i succeeds, rewrites the first such entry to i, leaves every other
\* usedAddresses entry as it was, leaves every other pending transfer as it was
\* and stores under tail a pending transfer whose tails are <<tail>>.
C4_MarkThenSpend ==
  [][/\ (/\ LastIs("MarkDepositAddresses") /\ last.err = "nil"
         /\ last.call.indices # <<>>
         /\ last'.call.op = "LoadAccount" /\ last'.call.id = last.call.id)
          => /\ last'.err = "nil"
             /\ last'.ret.UsedAddresses # <<>>
             /\ Abs(last'.ret.UsedAddresses[Len(last'.ret.UsedAddresses)])
                  = last.call.indices[Len(last.call.indices)]
     /\ (/\ last'.call.op = "AddPendingTransfer" /\ last'.pre.found
         /\ Len(last'.call.indices) = 1
         /\ HasIndex(last'.pre.doc.UsedAddresses, last'.call.indices[1]))
          => LET i == last'.call.indices[1]
                 before == last'.pre.doc
                 after == db'[last'.call.id].doc
                 p == FirstMatch(before.UsedAddresses, i)
             IN /\ last'.err = "nil"
                /\ Len(after.UsedAddresses) = Len(before.UsedAddresses)
                /\ after.UsedAddresses[p] = i
                /\ \A q \in 1..Len(before.UsedAddresses) :
                     q # p => after.UsedAddresses[q] = before.UsedAddresses[q]
                /\ DOMAIN after.PendingTransfers
                     = (DOMAIN before.PendingTransfers) \cup {last'.call.tail}
                /\ after.PendingTransfers[last'.call.tail].Tails = <<last'.call.tail>>
                /\ \A t \in (DOMAIN before.PendingTransfers) \ {last'.call.tail} :
                     after.PendingTransfers[t] = before.PendingTransfers[t]
    ]_vars

C4_Witness ==
  /\ LastIs("AddPendingTransfer") /\ last.err = "nil"
  /\ last.call.indices = <<1>>
  /\ Pre.UsedAddresses = <<0, -1>>
  /\ Post.UsedAddresses = <<0, 1>>
  /\ Post.PendingTransfers[last.call.tail].Tails = <<last.call.tail>>

\* C5: AddPendingTransfer on a loaded account, with at least one supplied index
\* that no usedAddresses entry matches, fails with AddrIndexNotFound and leaves
\* the stored record exactly as it was: no pending transfer inserted, no entry
\* flipped, not even for the supplied indices that come before the missing one.
C5_FailedAddPendingChangesNothing ==
  (/\ LastIs("AddPendingTransfer") /\ last.pre.found
   /\ \E k \in 1..Len(last.call.indices) :
        ~HasIndex(Pre.UsedAddresses, last.call.indices[k]))
    => /\ last.err = "ErrAddrIndexNotFound"
       /\ db[last.call.id] = last.pre

C5_Witness ==
  /\ LastIs("AddPendingTransfer")
  /\ last.call.indices = <<1, 0>>
  /\ last.pre.found /\ Pre.UsedAddresses = <<-1>>
  /\ last.err = "ErrAddrIndexNotFound"
  /\ db[last.call.id] = last.pre

C7_RemovePendingTwice ==
  [][/\ (/\ last'.call.op = "RemovePendingTransfer" /\ last'.pre.found
         /\ last'.call.tail \in DOMAIN last'.pre.doc.PendingTransfers)
          => LET before == last'.pre.doc
                 after == db'[last'.call.id].doc
             IN /\ last'.err = "nil"
                /\ db'[last'.call.id].found
                /\ after.UsedAddresses = before.UsedAddresses
                /\ DOMAIN after.PendingTransfers
                     = (DOMAIN before.PendingTransfers) \ {last'.call.tail}
                /\ \A t \in DOMAIN after.PendingTransfers :
                     after.PendingTransfers[t] = before.PendingTransfers[t]
     /\ (/\ last'.call.op = "RemovePendingTransfer" /\ last'.pre.found
         /\ last'.call.tail \notin DOMAIN last'.pre.doc.PendingTransfers)
          => /\ last'.err = "ErrPendingTransferNotFound"
             /\ db'[last'.call.id] = last'.pre
     /\ (/\ LastIs("RemovePendingTransfer") /\ last.err = "nil"
         /\ last'.call.op = "RemovePendingTransfer"
         /\ last'.call.id = last.call.id /\ last'.call.tail = last.call.tail)
          => /\ last'.err = "ErrPendingTransferNotFound"
             /\ db' = db
    ]_vars

C7_Witness ==
  /\ LastIs("RemovePendingTransfer") /\ last.err = "nil"
  /\ DOMAIN Pre.PendingTransfers = {"h1", "h2"}
  /\ DOMAIN Post.PendingTransfers = {"h1", "h2"} \ {last.call.tail}
  /\ Pre.UsedAddresses # <<>>

\* C8: every store operation other than LoadAccount, called on an id with no
\* stored record, returns a result or an error value, never aborts abnormally,
\* and creates no record for the id.
C8_MissingRecordNeverAborts ==
  (/\ last.call.op \in MutatingOps \cup {"GetPendingTransfers"}
   /\ ~last.pre.found)
    => /\ last.err # "panic"
       /\ ~db[last.call.id].found

\* C9: every bundle PrepareTransfers returns is balanced: the values of its
\* transactions sum to zero, whatever the transfers, the supplied inputs and the
\* remainder address are.
C9_ReturnedBundleBalanced ==
  (ptPc = "done" /\ ptRes.err = "nil") => SumOf(ValueOf, ptRes.bundle) = 0

\* C10: with transfers of total value V > 0 and supplied inputs whose balances
\* sum to exactly V (valid seed and remainder option), PrepareTransfers either
\* refuses with SendingBackToInputs, and then a transfer of positive value names
\* a supplied input's address, or returns the output transactions followed by
\* one input transaction per input (address without checksum, value minus the
\* balance) and nothing else: no remainder transaction, values summing to zero.
C10_Case ==
  /\ ptArgs.seedOK /\ ptArgs.remainder.kind # "invalid"
  /\ totalTransferValue(ptArgs.transfers) > 0
  /\ SumOf(BalanceOf, ptArgs.inputs) = totalTransferValue(ptArgs.transfers)

C11_Case ==
  /\ ptArgs.seedOK /\ ptArgs.remainder.kind # "invalid"
  /\ Len(ptArgs.inputs) > 0
  /\ SumOf(BalanceOf, ptArgs.inputs) < totalTransferValue(ptArgs.transfers)

C11_InsufficientInputsFail ==
  (ptPc = "done" /\ C11_Case)
    => (ptRes.err = "ErrInsufficientBalance" /\ ptRes.bundle = <<>>)

C11_Witness ==
  /\ ptPc = "done" /\ C11_Case
  /\ ptArgs.remainder.kind = "addr"
  /\ totalTransferValue(ptArgs.transfers) = 2
  /\ Len(ptArgs.inputs) = 2 /\ SumOf(BalanceOf, ptArgs.inputs) = 1
  /\ ptRes.err = "ErrInsufficientBalance"

\* C12: no bundle is returned in which a transaction of positive value (a
\* transfer output or the remainder) has the address of an input, the input's
\* address taken without its checksum: such a call fails with
\* SendingBackToInputs, with or without checksum on the supplied inputs.
C12_NeverPaysBackToInputs ==
  (ptPc = "done" /\ ptRes.err = "nil")
    => ~ \E i \in 1..Len(ptRes.bundle), j \in 1..Len(ptProps.Inputs) :
           /\ ptRes.bundle[i].Value > 0
           /\ ptRes.bundle[i].Address.hash = ptProps.Inputs[j].Address.hash

\* C13: when inputs are gathered, the spent-from query names exactly the
\* addresses of the gathered inputs, in their order.
C13_SpentQueryNamesGatheredInputs ==
  ptPc = "wereSpent"
    => LET query == spentQuery(ptProps.Inputs, ptProps.gathered) IN
       /\ Len(query) = Len(ptProps.gathered)
       /\ \A k \in 1..Len(ptProps.gathered) : query[k] = ptProps.gathered[k].Address

\* C14 helpers: the largest key index among the inputs, and the number of
\* addresses the node reported used before the first unused one
C14_MaxKeyIndex ==
  CHOOSE m \in {ptProps.Inputs[j].KeyIndex : j \in 1..Len(ptProps.Inputs)} :
    \A j \in 1..Len(ptProps.Inputs) : ptProps.Inputs[j].KeyIndex <= m

C14_FirstUnused ==
  CHOOSE n \in 0..Len(ptProps.nodeUsed) :
    /\ \A k \in 1..n : ptProps.nodeUsed[k]
    /\ n = Len(ptProps.nodeUsed) \/ ~ptProps.nodeUsed[n + 1]

C14_Case ==
  /\ ptPc = "done" /\ ptRes.err = "nil"
  /\ totalTransferValue(ptArgs.transfers) > 0
  /\ SumOf(BalanceOf, ptProps.Inputs) > totalTransferValue(ptArgs.transfers)

\* the bundle is the outputs, one input transaction per input, and one
\* remainder transaction of value (inputs total - V) at the given address
C14_Shape(address) ==
  LET nOut == Len(ptArgs.transfers)
      nIn == Len(ptProps.Inputs)
      bundle == ptRes.bundle
  IN /\ Len(bundle) = nOut + nIn + 1
     /\ \A k \in 1..nOut : bundle[k].Value = ptArgs.transfers[k].Value
     /\ \A j \in 1..nIn : bundle[nOut + j].Value = 0 - ptProps.Inputs[j].Balance
     /\ bundle[nOut + nIn + 1].Value
          = SumOf(BalanceOf, ptProps.Inputs) - totalTransferValue(ptArgs.transfers)
     /\ bundle[nOut + nIn + 1].Address = address

\* C14 as stated: with V > 0 and inputs summing to more than V the bundle gets
\* exactly one remainder transaction of value (inputs total - V), at the
\* supplied remainder address without checksum or, when none was supplied, at
\* the address of key index (largest key index among the inputs) + 1.
C14_RemainderAtNextIndex ==
  C14_Case
    => C14_Shape(IF ptArgs.remainder.kind = "addr"
                 THEN Addr(ptArgs.remainder.addr.hash, FALSE)
                 ELSE GenerateAddress(C14_MaxKeyIndex + 1))

\* C14 amended: when no remainder address was supplied, the remainder goes to
\* the first address from key index (largest key index among the inputs) + 1
\* upwards that the node reports unused.
C14_RemainderAtFirstUnused ==
  C14_Case
    => C14_Shape(IF ptArgs.remainder.kind = "addr"
                 THEN Addr(ptArgs.remainder.addr.hash, FALSE)
                 ELSE GenerateAddress(C14_MaxKeyIndex + 1 + C14_FirstUnused))

C14_Witness ==
  /\ C14_Case
  /\ ptArgs.remainder.kind = "nil"
  /\ Len(ptArgs.inputs) = 2 /\ ptArgs.inputs[1].KeyIndex = 1 /\ ptArgs.inputs[2].KeyIndex = 0
  /\ ptProps.nodeUsed # <<>> /\ ptProps.nodeUsed[1]
  /\ ptRes.bundle[Len(ptRes.bundle)].Address = GenerateAddress(3)
  /\ ptRes.bundle[Len(ptRes.bundle)].Value = 1

\* C15: a call with a valid seed ends by returning a bundle or an error value,
\* never by aborting.
C15_NeverAborts ==
  (ptPc = "done" /\ ptArgs.seedOK) => ptRes.err # "panic"

\* C16: when the transaction fetched for the tail hash has currentIndex # 0,
\* GetBundle fails with InvalidTailTransaction after that one fetch: no trunk
\* transaction is fetched and no bundle is returned, whatever the
\* transaction's lastIndex and trunk link are.
C16_Case ==
  /\ gb.pc # "idle" /\ gb.tail # BadHash
  /\ gb.ledger[gb.tail].CurrentIndex # 0

C16_NonTailFailsAfterOneFetch ==
  C16_Case
    => /\ Len(gb.fetched) <= 1
       /\ gb.pc = "done"
            => /\ gb.fetched = <<gb.tail>>
               /\ gb.bundle = <<>>
               /\ gb.err \in {"ErrInvalidTailTransaction", "ErrTransport", "ErrInvalidTrytes"}
       /\ (gb.pc = "done" /\ gb.err \notin {"ErrTransport", "ErrInvalidTrytes"})
            => gb.err = "ErrInvalidTailTransaction"

C16_Witness ==
  /\ C16_Case /\ gb.pc = "done"
  /\ gb.err = "ErrInvalidTailTransaction"
  /\ gb.ledger[gb.tail].CurrentIndex < gb.ledger[gb.tail].LastIndex
  /\ gb.ledger[gb.tail].TrunkTransaction \in TxHashes \ {gb.tail}
  /\ gb.fetched = <<gb.tail>>

\* C17: in whatever cycle the node reports the target inconsistent,
\* PromoteTransaction returns InconsistentSubtangle there and then: no bundle
\* is submitted in that cycle (the bundles sent are those of the earlier
\* cycles, one each), none is returned, and no delay or further cycle follows.
C17_InconsistentEndsPromotion ==
  pr.pc # "idle" /\ pr.sawInconsistent
    => /\ pr.pc = "done"
       /\ pr.err = "ErrInconsistentSubtangle"
       /\ pr.bundle = 0
       /\ pr.submitted = pr.sentBefore
       /\ pr.submitted = pr.cycle - 1
       /\ pr.waited = IF pr.hasDelay THEN pr.cycle - 1 ELSE 0

C17_Witness ==
  /\ pr.pc = "done" /\ pr.sawInconsistent
  /\ pr.cycle = 2 /\ pr.submitted = 1 /\ pr.hasDelay
  /\ pr.err = "ErrInconsistentSubtangle"

\* C18: without a context, or with a context that is already cancelled when
\* the call is made, PromoteTransaction never waits for the delay and never
\* enters a second cycle; when it returns without error it has submitted
\* exactly one promotion bundle and returns that one.
C18_Case == pr.pc # "idle" /\ (~pr.hasCtx \/ pr.cancelledAtCall)

C18_OneOffPromotion ==
  C18_Case
    => /\ pr.waited = 0 /\ pr.cycle <= 1 /\ pr.submitted <= 1
       /\ (pr.pc = "done" /\ pr.err = "nil") => (pr.submitted = 1 /\ pr.bundle = 1)

C18_Witness ==
  /\ C18_Case /\ pr.pc = "done" /\ pr.err = "nil"
  /\ pr.hasCtx /\ pr.cancelledAtCall /\ pr.hasDelay
  /\ pr.submitted = 1 /\ pr.bundle = 1

\* C19: once the context is cancelled the engine is never waiting on the
\* delay, and it never carries on with a cycle entered after the cancellation.
C19_CancellationStopsPromptly ==
  (pr.pc # "idle" /\ pr.cancelled)
    => /\ pr.pc # "delay"
       /\ ~(pr.lateCycle /\ pr.pc \in {"check", "send", "select"})

\* C20: IsAddressUsed returns only after both branches have finished, and
\* its result depends on the two queries' outcomes alone, not on the order the
\* branches finished in: the spent-from query's error if it failed, else the
\* find-transactions query's error if it failed, else true exactly when the
\* address was spent from or a transaction references it.
C20_ResultIndependentOfOrder ==
  au.pc = "done"
    => /\ au.b1 = "finished" /\ au.b2 = "finished"
       /\ au.err = (IF au.spentOutcome = "fail" THEN "ErrSpentFrom"
                    ELSE IF au.findOutcome = "fail" THEN "ErrFindTransactions"
                    ELSE "nil")
       /\ au.used = (/\ au.spentOutcome # "fail" /\ au.findOutcome # "fail"
                     /\ (au.spentOutcome = "spent" \/ au.findOutcome = "some"))

C20_Witness ==
  /\ au.pc = "done"
  /\ au.spentOutcome = "fail" /\ au.findOutcome = "fail"
  /\ au.order = <<2, 1>>
  /\ au.err = "ErrSpentFrom"

\* C21 helpers: the number of addresses the node reports used from index on
\* before the first unused one
C21_UsedRun ==
  CHOOSE n \in 0..Len(na.nodeUsed) :
    /\ \A k \in 1..n : na.nodeUsed[k]
    /\ n = Len(na.nodeUsed) \/ ~na.nodeUsed[n + 1]

C21_Case ==
  /\ na.pc = "done" /\ na.seedOK /\ na.total = -1 /\ ~na.failed

\* C21: without options.Total, when the node reports the addresses at index
\* .. k-1 used and the one at k unused, GetNewAddress asks about exactly the
\* indices index .. k, in that order and once each, and returns the address at
\* k alone, or with returnAll the addresses at index .. k in order.
C21_ProbesUntilFirstUnused ==
  C21_Case
    => LET n == C21_UsedRun
           first == IF na.returnAll THEN na.index ELSE na.index + n
           count == IF na.returnAll THEN n + 1 ELSE 1
       IN /\ na.err = "nil"
          /\ Len(na.probes) = n + 1
          /\ \A j \in 1..(n + 1) : na.probes[j] = na.index + j - 1
          /\ Len(na.result) = count
          /\ \A j \in 1..count :
               na.result[j] = Addr(AddrNames[first + j], na.checksum)

C21_Witness ==
  /\ C21_Case /\ ~na.returnAll /\ na.index = 1
  /\ na.nodeUsed # <<>> /\ na.nodeUsed[1]
  /\ na.probes = <<1, 2>>
  /\ Len(na.result) = 1 /\ na.result[1].hash = "C"

\* C22: when the derivation of an address or the used-address probe fails,
\* GetNewAddress returns an error, whatever the options are, Checksum
\* included; it never returns a nil error after such a failure.
C22_FailurePropagates ==
  (na.pc = "done" /\ na.failed) => na.err # "nil"

\* C23: with every RPC and every delay completing, a call whose context is
\* cancelled eventually returns; and a call that returns without error under a
\* context returns the bundle of its most recent submission.
C23_CancelledEventuallyReturns ==
  /\ [](pr.pc = "done" /\ pr.hasCtx /\ pr.err = "nil"
          => pr.cancelled /\ pr.submitted = pr.cycle /\ pr.bundle = pr.submitted)
  /\ (pr.pc # "idle" /\ pr.cancelled) ~> (pr.pc = "done")

C23_Witness ==
  /\ pr.pc = "done" /\ pr.err = "nil"
  /\ pr.hasCtx /\ ~pr.cancelledAtCall /\ pr.cancelled
  /\ pr.cycle = 2 /\ pr.submitted = 2 /\ pr.bundle = 2

\* C24: from a tail with currentIndex 0, TraverseBundle fetches one
\* transaction per hop along the trunk links, never goes past a transaction
\* with currentIndex = lastIndex, and ends only at such a transaction or at a
\* failed fetch; what it has collected is exactly the fetched transactions in
\* trunk order. On a chain with no such transaction it is still fetching for as
\* long as it is followed.
C24_Case ==
  /\ gb.pc \notin {"idle", "call"} /\ gb.tail # BadHash
  /\ gb.ledger[gb.tail].CurrentIndex = 0

C24_Ends(tx) == tx.CurrentIndex = tx.LastIndex

C24_TraversalFollowsTrunk ==
  C24_Case
    => LET n == Len(gb.fetched)
           fetchFailed == gb.pc = "done" /\ gb.err \in {"ErrTransport", "ErrInvalidTrytes"}
           ended == gb.pc \in {"validate", "done"}
       IN /\ n >= 1 => gb.fetched[1] = gb.tail
          /\ \A k \in 1..(n - 1) :
               /\ gb.fetched[k + 1] = gb.ledger[gb.fetched[k]].TrunkTransaction
               /\ ~C24_Ends(gb.ledger[gb.fetched[k]])
          /\ Len(gb.bndl) = IF fetchFailed THEN n - 1 ELSE n
          /\ \A k \in 1..Len(gb.bndl) : gb.bndl[k] = gb.ledger[gb.fetched[k]]
          /\ (ended /\ ~fetchFailed) => (n >= 1 /\ C24_Ends(gb.ledger[gb.fetched[n]]))
          /\ ~ended
               => /\ gb.pc = "fetch"
                  /\ n >= 1 => /\ ~C24_Ends(gb.ledger[gb.fetched[n]])
                               /\ gb.trunk = gb.ledger[gb.fetched[n]].TrunkTransaction
          /\ (gb.pc = "done" /\ gb.err = "nil") => gb.bundle = gb.bndl

C24_Witness ==
  /\ C24_Case /\ gb.pc = "validate"
  /\ gb.fetched = <<"t1", "t2">>
  /\ gb.ledger["t1"].LastIndex = 1
  /\ gb.ledger["t2"].CurrentIndex = 1 /\ gb.ledger["t2"].LastIndex = 1
  /\ gb.bndl = <<gb.ledger["t1"], gb.ledger["t2"]>>

\* C25: for every key index, 0 included, the entries a successful
\* MarkDepositAddresses adds are stored in the reserved, negative form, and an
\* index named in a successful AddPendingTransfer has an entry in the spent,
\* non-negative form.
C25_ReservedUntilSpent ==
  (last.err = "nil" /\ db[last.call.id].found)
    => /\ LastIs("MarkDepositAddresses")
            => \A k \in (Len(Pre.UsedAddresses) + 1)..Len(Post.UsedAddresses) :
                 Post.UsedAddresses[k] < 0
       /\ LastIs("AddPendingTransfer")
            => \A j \in 1..Len(last.call.indices) :
                 \E k \in 1..Len(Post.UsedAddresses) :
                   Post.UsedAddresses[k] = last.call.indices[j]

\* C26: in every stored record no two usedAddresses entries have the same
\* absolute value, and the lastKeyIndex LoadAccount reports for a record with
\* entries is the absolute value of the last one.
C26_UniqueIndicesAndLastKeyIndex ==
  \A id \in Ids :
    db[id].found
      => LET used == db[id].doc.UsedAddresses IN
         /\ \A j, k \in 1..Len(used) : j # k => Abs(used[j]) # Abs(used[k])
         /\ (LastIs("LoadAccount") /\ last.call.id = id /\ Len(used) > 0)
              => last.ret.lastKeyIndex = Abs(used[Len(used)])

====
